---- MODULE Spec2Model ----
(***************************************************************************)
(* Model of the LinketySplit publication SDK (linketysplit-js):            *)
(*   - validateArticlePricing and validateArticlePermalink                 *)
(*     (src/src/validators.ts),                                            *)
(*   - PublicationSDK.createArticlePurchaseUrl, in each PublicationSDK     *)
(*     class of the repository (src/src/publication-sdk.ts, src/unnamed),  *)
(*   - the API operations of PublicationSDK: handleArticleRequestUrl, the  *)
(*     endpoint accessors and makeApiRequest (src/src/publication-sdk.ts). *)
(***************************************************************************)
EXTENDS Integers, Sequences, FiniteSets, TLC

VARIABLES
    pricingArg,   \* the pricing object a caller passes to validateArticlePricing
    pricingRet,   \* the outcome of that call: pending, thrown or returned
    pricingHeap,  \* the objects the call can reach: the caller's and the ones it allocates
    pricingAgain, \* the outcome of validating the returned value once more
    permalinkArg,    \* the permalink a caller passes to validateArticlePermalink
    permalinkRet,    \* the outcome of that call
    permalinkAgain,  \* the outcome of validating the returned string once more
    implementation,  \* the PublicationSDK class of the repository the instance is of
    publicationApiKey,   \* PublicationSDK.publicationApiKey of the SDK instance
    calls,        \* the createArticlePurchaseUrl calls made on the instance
    apiCalls,     \* the API operations in flight on the instance, waiting for fetch
    apiLast       \* the API operation that settled last, with what it did

pricingVars == <<pricingArg, pricingRet, pricingHeap, pricingAgain>>
permalinkVars == <<permalinkArg, permalinkRet, permalinkAgain>>
sdkVars == <<implementation, publicationApiKey, calls>>
apiVars == <<apiCalls, apiLast>>
vars == <<pricingVars, permalinkVars, sdkVars, apiVars>>

(***************************************************************************)
(* Bounds of the model.                                                    *)
(***************************************************************************)
MaxTiers == 2     \* longest discounts list a caller passes
MaxPrice == 1     \* largest integer price a caller passes
MaxQty == 3       \* largest integer minimumQuantity a caller passes
MaxPct == 2       \* largest small integer discountPercentage a caller passes
MaxCalls == 2     \* createArticlePurchaseUrl calls that can be in flight together
MaxApiCalls == 1  \* API operations that can be in flight together

(***************************************************************************)
(* JavaScript numbers.  A number is NaN, an infinity, or a finite value    *)
(* kept in half units (h = 2 * value), so that fractional values such as   *)
(* 7.5 or 21.5 exist next to the integers.                                 *)
(***************************************************************************)
NaN == [k |-> "nan", h |-> 0]
PosInf == [k |-> "inf", h |-> 1]
Num(n) == [k |-> "fin", h |-> 2 * n]
Frac(n) == [k |-> "fin", h |-> 2 * n + 1]    \* n + 0.5

NumberIsNaN(x) == x.k = "nan"
NumberIsInteger(x) == x.k = "fin" /\ x.h % 2 = 0

\* x < y on JavaScript numbers: false as soon as one side is NaN
Lt(x, y) ==
    /\ x.k # "nan"
    /\ y.k # "nan"
    /\ CASE x.k = "inf" /\ y.k = "inf" -> x.h < y.h
         [] x.k = "inf" -> x.h < 0
         [] y.k = "inf" -> y.h > 0
         [] OTHER -> x.h < y.h
\* x <= y on JavaScript numbers
Le(x, y) == x.k # "nan" /\ y.k # "nan" /\ (x = y \/ Lt(x, y))
\* x >= y on JavaScript numbers
Ge(x, y) == Le(y, x)

(***************************************************************************)
(* Program constants of validateArticlePricing.                            *)
(***************************************************************************)
MinPriceExclusive == 0
MinQuantity == 2
MinPctExclusive == 0
MaxPctExclusive == 100
FirstPrevPct == 0

PriceError == "Price must be an integer greater than 0."
QuantityError == "Minimum quantity must be an integer greater than or equal to 2."
PercentageError == "Discount percentage must be a number greater than 0 and less than 100."
UniqueError == "Discount quantities must be unique."
TierError == "Each tier discount percentage must be greater than the previous tier's discount."

(***************************************************************************)
(* JavaScript values held by the optional discounts field: an array of     *)
(* tiers, or some value that is not an array.                              *)
(***************************************************************************)
JsArray(items) == [isArray |-> TRUE, items |-> items]
JsNotArray == [isArray |-> FALSE, items |-> <<>>]
ArrayIsArray(v) == v.isArray

Tier(q, p) == [minimumQuantity |-> q, discountPercentage |-> p]

\* outcome of a call
Thrown(msg) == [status |-> "thrown", error |-> msg]
Returned(v) == [status |-> "returned", value |-> v]
Pending == [status |-> "pending"]

(***************************************************************************)
(* validateArticlePricing, src/src/validators.ts:48-106                    *)
(***************************************************************************)
\* const rawDiscounts = Array.isArray(pricing.discounts) ? pricing.discounts : []
RawDiscounts(pricing) ==
    IF "discounts" \in DOMAIN pricing /\ ArrayIsArray(pricing.discounts)
    THEN pricing.discounts.items
    ELSE <<>>

\* variants of the checks, each with one plausible slip
PriceInvalidZeroAllowed(price) ==
    NumberIsNaN(price) \/ ~NumberIsInteger(price) \/ Lt(price, Num(MinPriceExclusive))
QuantityInvalidFractionAllowed(minimumQuantity) ==
    NumberIsNaN(minimumQuantity) \/ Lt(minimumQuantity, Num(MinQuantity))
PercentageInvalidHundredAllowed(discountPercentage) ==
    \/ NumberIsNaN(discountPercentage)
    \/ Le(discountPercentage, Num(MinPctExclusive))
    \/ Lt(Num(MaxPctExclusive), discountPercentage)
QuantitiesNotUniqueUnchecked(discounts) == FALSE
SortDiscountsUnsorted(s) == s

PriceInvalid(price) ==
    NumberIsNaN(price) \/ ~NumberIsInteger(price) \/ Le(price, Num(MinPriceExclusive))

QuantityInvalid(minimumQuantity) ==
    \/ NumberIsNaN(minimumQuantity)
    \/ ~NumberIsInteger(minimumQuantity)
    \/ Lt(minimumQuantity, Num(MinQuantity))

PercentageInvalidFractionRejected(discountPercentage) ==
    \/ NumberIsNaN(discountPercentage)
    \/ ~NumberIsInteger(discountPercentage)
    \/ Le(discountPercentage, Num(MinPctExclusive))
    \/ Ge(discountPercentage, Num(MaxPctExclusive))
PercentageInvalid(discountPercentage) ==
    \/ NumberIsNaN(discountPercentage)
    \/ Le(discountPercentage, Num(MinPctExclusive))
    \/ Ge(discountPercentage, Num(MaxPctExclusive))

\* the first loop: the error of the first raw discount that fails a field
\* check, scanning from index i, or "" when every one passes
FieldLoopQuantitiesFirst(raw, i) ==
    IF \E k \in i..Len(raw) : QuantityInvalid(raw[k].minimumQuantity) THEN QuantityError
    ELSE IF \E k \in i..Len(raw) : PercentageInvalid(raw[k].discountPercentage)
         THEN PercentageError
    ELSE ""
RECURSIVE FieldLoop(_, _)
FieldLoop(raw, i) ==
    IF i > Len(raw) THEN ""
    ELSE IF QuantityInvalid(raw[i].minimumQuantity) THEN QuantityError
    ELSE IF PercentageInvalid(raw[i].discountPercentage) THEN PercentageError
    ELSE FieldLoop(raw, i + 1)

\* data.discounts.push({minimumQuantity, discountPercentage}) for every raw discount
PushedFromSecond(raw) ==
    [i \in 1..(Len(raw) - 1) |-> Tier(raw[i + 1].minimumQuantity, raw[i + 1].discountPercentage)]
Pushed(raw) ==
    [i \in 1..Len(raw) |-> Tier(raw[i].minimumQuantity, raw[i].discountPercentage)]

\* new Set(quantities).size !== quantities.length
QuantitiesNotUnique(discounts) ==
    Cardinality({discounts[i].minimumQuantity : i \in 1..Len(discounts)}) # Len(discounts)

\* the comparator (a, b) => a.minimumQuantity - b.minimumQuantity is positive
\* (both quantities are finite integers when the sort runs)
ComparatorPositive(a, b) == a.minimumQuantity.h - b.minimumQuantity.h > 0

\* insert tier t into the sorted list s, after every element not greater than it
RECURSIVE SortInsert(_, _)
SortInsert(s, t) ==
    IF s = <<>> THEN <<t>>
    ELSE IF ComparatorPositive(Head(s), t) THEN <<t>> \o s
    ELSE <<Head(s)>> \o SortInsert(Tail(s), t)

\* data.discounts.sort(comparator): a stable sort, ascending by the comparator
RECURSIVE SortDiscounts(_)
SortDiscounts(s) ==
    IF s = <<>> THEN <<>>
    ELSE SortInsert(SortDiscounts(SubSeq(s, 1, Len(s) - 1)), s[Len(s)])

\* the second loop: some tier's percentage is <= the previous one's (0 for the first)
PrevPct(sorted, i) == IF i = 1 THEN Num(FirstPrevPct) ELSE sorted[i - 1].discountPercentage
TierLoopFailsEqualAllowed(sorted) ==
    \E i \in 1..Len(sorted) : Lt(sorted[i].discountPercentage, PrevPct(sorted, i))
TierLoopFails(sorted) ==
    \E i \in 1..Len(sorted) : Le(sorted[i].discountPercentage, PrevPct(sorted, i))

\* variant: returns the caller's object instead of the normalized data
validateArticlePricingReturnsInput(pricing) ==
    IF PriceInvalid(pricing.price) THEN Thrown(PriceError)
    ELSE LET raw == RawDiscounts(pricing)
             fieldError == FieldLoop(raw, 1)
         IN  IF fieldError # "" THEN Thrown(fieldError)
             ELSE IF QuantitiesNotUnique(Pushed(raw)) THEN Thrown(UniqueError)
             ELSE IF TierLoopFails(SortDiscounts(Pushed(raw))) THEN Thrown(TierError)
             ELSE Returned(pricing)

\* variant: the monotonicity walk runs before the uniqueness check
validateArticlePricingTierFirst(pricing) ==
    IF PriceInvalid(pricing.price) THEN Thrown(PriceError)
    ELSE LET raw == RawDiscounts(pricing)
             fieldError == FieldLoop(raw, 1)
             sorted == SortDiscounts(Pushed(raw))
         IN  IF fieldError # "" THEN Thrown(fieldError)
             ELSE IF TierLoopFails(sorted) THEN Thrown(TierError)
             ELSE IF QuantitiesNotUnique(Pushed(raw)) THEN Thrown(UniqueError)
             ELSE Returned([price |-> pricing.price, discounts |-> JsArray(sorted)])

validateArticlePricingPriceInCents(pricing) ==
    IF PriceInvalid(pricing.price) THEN Thrown(PriceError)
    ELSE LET raw == RawDiscounts(pricing)
             fieldError == FieldLoop(raw, 1)
         IN  IF fieldError # "" THEN Thrown(fieldError)
             ELSE IF QuantitiesNotUnique(Pushed(raw)) THEN Thrown(UniqueError)
             ELSE LET sorted == SortDiscounts(Pushed(raw))
                  IN  IF TierLoopFails(sorted) THEN Thrown(TierError)
                      ELSE Returned([price |-> [k |-> "fin", h |-> 100 * pricing.price.h],
                                     discounts |-> JsArray(sorted)])
validateArticlePricing(pricing) ==
    IF PriceInvalid(pricing.price) THEN Thrown(PriceError)
    ELSE LET raw == RawDiscounts(pricing)
             fieldError == FieldLoop(raw, 1)
         IN  IF fieldError # "" THEN Thrown(fieldError)
             ELSE IF QuantitiesNotUnique(Pushed(raw)) THEN Thrown(UniqueError)
             ELSE LET sorted == SortDiscounts(Pushed(raw))
                  IN  IF TierLoopFails(sorted) THEN Thrown(TierError)
                      ELSE Returned([price |-> pricing.price,
                                     discounts |-> JsArray(sorted)])

(***************************************************************************)
(* The objects validateArticlePricing reads and writes.  The heap holds    *)
(* the caller's pricing object under caller and, once line 55 has run, the *)
(* array literal of data.discounts under data.  The function assigns to no *)
(* property of pricing or of a raw discount; its writes are the pushes of  *)
(* line 85 and the in-place sort of line 95, each on the array it names.   *)
(***************************************************************************)
CallerRef == "pricing.discounts"
DataRef == "data.discounts"

\* the items of the array a reference names
ReadList(heap, ref) ==
    IF ref = DataRef THEN heap.data ELSE RawDiscounts(heap.caller)

\* the heap after the array a reference names got new items; the caller's
\* object holds an array only when RawDiscounts took it from there
WriteList(heap, ref, items) ==
    IF ref = DataRef THEN [heap EXCEPT !.data = items]
    ELSE IF "discounts" \in DOMAIN heap.caller /\ ArrayIsArray(heap.caller.discounts)
         THEN [heap EXCEPT !.caller = [heap.caller EXCEPT !.discounts = JsArray(items)]]
    ELSE heap

\* the number of raw discounts the first loop pushes before it throws or ends
PushedCount(raw) ==
    LET bad == {i \in 1..Len(raw) : FieldLoop(SubSeq(raw, 1, i), 1) # ""}
    IN  IF bad = {} THEN Len(raw)
        ELSE (CHOOSE i \in bad : \A j \in bad : i <= j) - 1

\* the array line 95 sorts in place
SortTargetRaw == CallerRef
SortTarget == DataRef

\* the heap when the call has returned or thrown
HeapAfter(pricing) ==
    LET before == [caller |-> pricing]
    IN  IF PriceInvalid(pricing.price) THEN before
        ELSE LET raw == RawDiscounts(pricing)
                 n == PushedCount(raw)
                 pushed == [caller |-> pricing, data |-> Pushed(SubSeq(raw, 1, n))]
             IN  IF n < Len(raw) \/ QuantitiesNotUnique(pushed.data) THEN pushed
                 ELSE WriteList(pushed, SortTarget,
                                SortDiscounts(ReadList(pushed, SortTarget)))

(***************************************************************************)
(* Permalinks.  A permalink string is kept as the pieces it is written     *)
(* with: scheme "://" userinfo host port path query hash, where port is    *)
(* written ":3000", query "?foo=bar" and hash "#foo"; "?" and "#" alone    *)
(* are an empty query and an empty fragment; scheme "" is a string with no *)
(* scheme, which is not an absolute URL.                                   *)
(***************************************************************************)
UrlText(scheme, username, password, host, port, path, query, hash) ==
    [scheme |-> scheme, username |-> username, password |-> password,
     host |-> host, port |-> port, path |-> path, query |-> query, hash |-> hash]

\* ASCII lower case of the schemes a caller writes
LowerCase(str) == IF str = "HTTPS" THEN "https" ELSE str
\* the default port of a scheme, as written after the host
DefaultPort(scheme) == IF scheme = "https" THEN ":443" ELSE ":80"

\* new URL(permalink) succeeds
UrlParses(text) == text.scheme # "" /\ text.host # ""

\* variant: the parser drops every port, not only the default one
NewURLPortDropped(text) ==
    [protocol |-> LowerCase(text.scheme),
     username |-> text.username,
     password |-> text.password,
     host |-> text.host,
     port |-> "",
     pathname |-> IF text.path = "" THEN "/" ELSE text.path,
     query |-> text.query,
     fragment |-> text.hash]

\* new URL(permalink): the scheme is lower-cased, the default port is
\* dropped, an empty path becomes "/"
NewURL(text) ==
    [protocol |-> LowerCase(text.scheme),
     username |-> text.username,
     password |-> text.password,
     host |-> text.host,
     port |-> IF text.port = DefaultPort(LowerCase(text.scheme)) THEN "" ELSE text.port,
     pathname |-> IF text.path = "" THEN "/" ELSE text.path,
     query |-> text.query,
     fragment |-> text.hash]

\* the getters url.search and url.hash: empty for an empty query or fragment
UrlSearch(url) == IF url.query = "?" THEN "" ELSE url.query
\* variant: the fragment is never seen
UrlHashNeverSet(url) == ""
UrlHash(url) == IF url.fragment = "#" THEN "" ELSE url.fragment

\* variant: the host and what follows it, without the scheme
UrlToStringWithoutScheme(url) ==
    [scheme |-> "", username |-> url.username, password |-> url.password,
     host |-> url.host, port |-> url.port, path |-> url.pathname,
     query |-> url.query, hash |-> url.fragment]

\* url.toString(): the serialization keeps a query or fragment that is
\* present, even when it is empty
UrlToString(url) ==
    UrlText(url.protocol, url.username, url.password, url.host, url.port,
            url.pathname, url.query, url.fragment)

NotValidError == "Permalink is not valid."
HttpsError == "Permalink must use \"https://\""
QueryError == "Permalink must not contain any query parameters"
PortError == "Permalink must not contain a port"
HashError == "Permalink must not contain a hash fragment"
UserError == "Permalink must not contain a user/password"

(***************************************************************************)
(* validateArticlePermalink, src/src/validators.ts:12-36                   *)
(***************************************************************************)
validateArticlePermalink(permalink) ==
    IF ~UrlParses(permalink) THEN Thrown(NotValidError)
    ELSE LET url == NewURL(permalink)
         IN  IF url.protocol # "https" THEN Thrown(HttpsError)
             ELSE IF UrlSearch(url) # "" THEN Thrown(QueryError)
             ELSE IF url.port # "" THEN Thrown(PortError)
             ELSE IF UrlHash(url) # "" THEN Thrown(HashError)
             ELSE IF url.password # "" \/ url.username # "" THEN Thrown(UserError)
             ELSE Returned(UrlToString(url))

(***************************************************************************)
(* The validators of the PublicationSDK class in src/unnamed/part_004      *)
(* (static methods, lines 74-157): one combined check of query, fragment   *)
(* and credentials, no port check, no uniqueness check.                    *)
(***************************************************************************)
CombinedError ==
    "Permalink must not contain any query parameters, user/password, query strings, or hash fragments"

validateArticlePermalink004(permalink) ==
    IF ~UrlParses(permalink) THEN Thrown(NotValidError)
    ELSE LET url == NewURL(permalink)
         IN  IF url.protocol # "https" THEN Thrown(HttpsError)
             ELSE IF \/ UrlSearch(url) # ""
                     \/ UrlHash(url) # ""
                     \/ url.username # ""
                     \/ url.password # ""
                  THEN Thrown(CombinedError)
             ELSE Returned(UrlToString(url))

validateArticlePricing004(pricing) ==
    IF PriceInvalid(pricing.price) THEN Thrown(PriceError)
    ELSE LET raw == RawDiscounts(pricing)
             fieldError == FieldLoop(raw, 1)
             sorted == SortDiscounts(Pushed(raw))
         IN  IF fieldError # "" THEN Thrown(fieldError)
             ELSE IF TierLoopFails(sorted) THEN Thrown(TierError)
             ELSE Returned([price |-> pricing.price, discounts |-> JsArray(sorted)])

(***************************************************************************)
(* PublicationSDK.createArticlePurchaseUrl, src/src/publication-sdk.ts,    *)
(* and the other PublicationSDK classes of the repository.                 *)
(***************************************************************************)
\* the classes: the named file, the two classes of src/unnamed/part_005,
\* and those of src/unnamed/part_006 and src/unnamed/part_004
Implementations == {"publication-sdk.ts", "part_005a", "part_005b", "part_006", "part_004"}

\* what the class puts in payload.permalink: the argument itself, or the
\* result of the permalink validator it calls
ImplPermalink(impl, permalink) ==
    CASE impl \in {"publication-sdk.ts", "part_005a"} -> Returned(permalink)
      [] impl = "part_004" -> validateArticlePermalink004(permalink)
      [] OTHER -> validateArticlePermalink(permalink)

\* what the class puts in payload.customPricing
ImplPricing(impl, customPricing) ==
    CASE impl \in {"publication-sdk.ts", "part_005a"} -> Returned(customPricing)
      [] impl = "part_004" -> validateArticlePricing004(customPricing)
      [] OTHER -> validateArticlePricing(customPricing)

API_PATH == "api/v1/publication"
LINKETYSPLIT_ORIGIN == "https://linketysplit.com"
PURCHASE_LINK_PATH == "purchase-link"
Alg == "HS256"
\* the instant setIssuedAt() reads from the clock
IssuedAt == "now"

\* variant: the flag is copied whenever the caller passed one
BuildPayloadFlagCopied(args) ==
    LET base == [permalink |-> args.permalink]
        withPricing ==
            IF "customPricing" \in DOMAIN args
            THEN base @@ [customPricing |-> args.customPricing]
            ELSE base
    IN  IF "showSharingContext" \in DOMAIN args
        THEN withPricing @@ [showSharingContext |-> args.showSharingContext]
        ELSE withPricing

\* the payload the method builds from its arguments; args has the key
\* customPricing or showSharingContext only when the caller passed it
BuildPayload(args) ==
    LET base == [permalink |-> args.permalink]
        withPricing ==
            IF "customPricing" \in DOMAIN args
            THEN base @@ [customPricing |-> args.customPricing]
            ELSE base
    IN  IF "showSharingContext" \in DOMAIN args /\ args.showSharingContext = TRUE
        THEN withPricing @@ [showSharingContext |-> TRUE]
        ELSE withPricing

\* variant: the token is authenticated with a fixed secret
SignJWTFixedSecret(payload, secret) ==
    [header |-> [alg |-> Alg],
     claims |-> payload @@ [iat |-> IssuedAt],
     signedWith |-> "key-A"]

\* new SignJWT(payload).setProtectedHeader({alg}).setIssuedAt().sign(secret):
\* a compact token over the header and the claims, authenticated with secret
SignJWT(payload, secret) ==
    [header |-> [alg |-> Alg],
     claims |-> payload @@ [iat |-> IssuedAt],
     signedWith |-> secret]

\* jwtVerify(jwt, key): the claims when the token was authenticated with
\* key, a failure otherwise
VerificationError == "signature verification failed"
jwtVerify(jwt, key) ==
    IF jwt.signedWith = key THEN Returned(jwt.claims) ELSE Thrown(VerificationError)

\* [origin, path, jwt].join('/'), kept as its three segments
PurchaseUrl(jwt) == <<LINKETYSPLIT_ORIGIN, PURCHASE_LINK_PATH, jwt>>
\* the URL a class returns: part_004 joins API_PATH instead
ImplUrl(impl, jwt) ==
    IF impl = "part_004" THEN <<LINKETYSPLIT_ORIGIN, API_PATH, jwt>> ELSE PurchaseUrl(jwt)

\* the method up to the construction of the signer: the first validator
\* failure, or the payload built from the validated arguments
StartCallPricingFirst(impl, args) ==
    LET p == ImplPermalink(impl, args.permalink)
        c == IF "customPricing" \in DOMAIN args
             THEN ImplPricing(impl, args.customPricing)
             ELSE Returned(<<>>)
    IN  IF c.status = "thrown" THEN c
        ELSE IF p.status = "thrown" THEN p
        ELSE IF "customPricing" \notin DOMAIN args
             THEN Returned(BuildPayload([args EXCEPT !.permalink = p.value]))
        ELSE Returned(BuildPayload([args EXCEPT !.permalink = p.value,
                                                !.customPricing = c.value]))
StartCall(impl, args) ==
    LET p == ImplPermalink(impl, args.permalink)
    IN  IF p.status = "thrown" THEN p
        ELSE IF "customPricing" \notin DOMAIN args
             THEN Returned(BuildPayload([args EXCEPT !.permalink = p.value]))
        ELSE LET c == ImplPricing(impl, args.customPricing)
             IN  IF c.status = "thrown" THEN c
                 ELSE Returned(BuildPayload([args EXCEPT !.permalink = p.value,
                                                         !.customPricing = c.value]))

(***************************************************************************)
(* Inputs of createArticlePurchaseUrl.                                     *)
(***************************************************************************)
ApiKeys == {"key-A", "key-B"}
CallIds == 1..MaxCalls
SdkPermalinks ==
    {UrlText("https", "", "", "example.com", "", "/article", "", ""),
     UrlText("http", "", "", "example.com", "", "/article", "", ""),
     UrlText("https", "", "", "example.com", "", "", "", "")}
SdkPricings ==
    {[price |-> NaN],
     [price |-> Num(1)],
     [price |-> Num(1),
      discounts |-> JsArray(<<Tier(Num(3), Num(2)), Tier(Num(2), Num(1))>>)]}
\* every permalink with and without every pricing, and the sharing flag on
\* the calls with the first permalink
SdkArgs ==
    LET a1 == {[permalink |-> u] : u \in SdkPermalinks}
        a2 == a1 \cup {a @@ [customPricing |-> c] : a \in a1, c \in SdkPricings}
        flagged == {a \in a2 : a.permalink =
                        UrlText("https", "", "", "example.com", "", "/article", "", "")}
    IN  a2 \cup {a @@ [showSharingContext |-> b] : a \in flagged, b \in BOOLEAN}

Idle == [pc |-> "idle"]

\* the call runs up to "await signer.sign(encodedSecret)" and is suspended
\* there, or rejects with the failure of a validator
CreateArticlePurchaseUrl(c) ==
    /\ calls[c].pc = "idle"
    /\ \E args \in SdkArgs :
          LET started == StartCall(implementation, args)
          IN  calls' = [calls EXCEPT ![c] =
                  IF started.status = "thrown"
                  THEN [pc |-> "rejected", args |-> args, error |-> started.error]
                  ELSE [pc |-> "signing", args |-> args, payload |-> started.value]]
    /\ UNCHANGED <<pricingVars, permalinkVars, implementation, publicationApiKey, apiVars>>

\* the payload a suspended call signs: the const payload of its own
\* invocation (line 55), which no other invocation can reach
PayloadOfShared(callStates, c) ==
    LET signing == {k \in DOMAIN callStates : callStates[k].pc = "signing"}
    IN  callStates[CHOOSE k \in signing : \A j \in signing : j <= k].payload
PayloadOf(callStates, c) == callStates[c].payload

\* the signer's promise resolves and the call returns the URL
SignResolves(c) ==
    /\ calls[c].pc = "signing"
    /\ calls' = [calls EXCEPT ![c] =
                    [pc |-> "resolved", args |-> calls[c].args,
                     payload |-> calls[c].payload,
                     url |-> ImplUrl(implementation,
                                     SignJWT(PayloadOf(calls, c), publicationApiKey))]]
    /\ UNCHANGED <<pricingVars, permalinkVars, implementation, publicationApiKey, apiVars>>

(***************************************************************************)
(* The publication API, src/src/publication-sdk.ts:86-200.  JavaScript     *)
(* values are kept with their type, so that typeof, truthiness and a       *)
(* property read can be computed as the language does.                     *)
(***************************************************************************)
JsNull == [type |-> "null"]
JsUndefined == [type |-> "undefined"]
JsString(str) == [type |-> "string", str |-> str]
JsNumber(num) == [type |-> "number", num |-> num]
JsList(items) == [type |-> "array", items |-> items]
JsObject(props) == [type |-> "object", props |-> props]

\* typeof v
Typeof(v) == IF v.type \in {"null", "array", "object"} THEN "object" ELSE v.type

\* the condition if (v)
TruthyEmptyStringAllowed(v) ==
    CASE v.type \in {"null", "undefined"} -> FALSE
      [] v.type = "number" -> v.num # 0
      [] OTHER -> TRUE
Truthy(v) ==
    CASE v.type \in {"null", "undefined"} -> FALSE
      [] v.type = "string" -> v.str # ""
      [] v.type = "number" -> v.num # 0
      [] OTHER -> TRUE

\* v[name] of a value that is not null or undefined
GetProp(v, name) ==
    IF v.type = "object" /\ name \in DOMAIN v.props THEN v.props[name] ELSE JsUndefined

\* the outcome of a promise
Resolved(v) == [status |-> "resolved", value |-> v]
Rejected(e) == [status |-> "rejected", error |-> e]

\* JSON.parse of the response body texts of the model; any other text is
\* not JSON
Parsed(v) == [ok |-> TRUE, value |-> v]
NotJson == [ok |-> FALSE]
JsonParse(text) ==
    CASE text = "null" -> Parsed(JsNull)
      [] text = "\"bar\"" -> Parsed(JsString("bar"))
      [] text = "[]" -> Parsed(JsList(<<>>))
      [] text = "{\"message\":\"bar\"}" -> Parsed(JsObject([message |-> JsString("bar")]))
      [] text = "{\"message\":42}" -> Parsed(JsObject([message |-> JsNumber(42)]))
      [] text = "{\"foo\":\"bar\"}" -> Parsed(JsObject([foo |-> JsString("bar")]))
      [] OTHER -> NotJson

\* await response.json(): the parsed body, or a SyntaxError
JsonSyntaxError == [name |-> "SyntaxError"]
ResponseJson(response) ==
    LET parsed == JsonParse(response.body)
    IN  IF parsed.ok THEN Resolved(parsed.value) ELSE Rejected(JsonSyntaxError)

\* response.ok of the fetch standard: the status is in 200..299
ResponseOk(response) == response.status \in 200..299

\* JSON.stringify(postData): the text that parses to postData, and its length
JsonStringify(v) == [json |-> v]
TextLength(text) == [lengthOf |-> text]

\* encodeURIComponent on the slugs of the model; a slug of unreserved
\* characters only is left as it is
encodeURIComponentUnencoded(slug) == slug
encodeURIComponent(slug) ==
    CASE slug = "https://example.com/article" -> "https%3A%2F%2Fexample.com%2Farticle"
      [] slug = "a b" -> "a%20b"
      [] OTHER -> slug

PUBLICATION_API_PATH == "api/v1/publication"
ARTICLE_ACCESS_LINK_PARAM == "linketysplit_access"
UnknownError == "Unknown error."

\* new ApiCallError(message, statusCode, statusMessage), src/src/api-call-error.ts
ApiCallError(message, statusCode, statusMessage) ==
    [name |-> "ApiCallError", message |-> message,
     statusCode |-> statusCode, statusMessage |-> statusMessage]

\* makeApiRequest up to the call of fetch: the request it hands to fetch.
\* The URL is kept as the parts that are joined with "/".
BuildRequestAlwaysGet(key, slugs, postData) ==
    [url |-> <<LINKETYSPLIT_ORIGIN, PUBLICATION_API_PATH>>
                 \o [i \in 1..Len(slugs) |-> encodeURIComponent(slugs[i])],
     method |-> "GET",
     headers |-> ("Authorization" :> ("Bearer " \o key)) @@ ("Accept" :> "application/json")]
BuildRequest(key, slugs, postData) ==
    LET apiUrl == <<LINKETYSPLIT_ORIGIN, PUBLICATION_API_PATH>>
                      \o [i \in 1..Len(slugs) |-> encodeURIComponent(slugs[i])]
        headers == ("Authorization" :> ("Bearer " \o key)) @@ ("Accept" :> "application/json")
    IN  IF Truthy(postData)
        THEN LET body == JsonStringify(postData)
             IN  [url |-> apiUrl, method |-> "POST",
                  headers |-> ("Content-Length" :> TextLength(body))
                                 @@ ("Content-Type" :> "application/json") @@ headers,
                  body |-> body]
        ELSE [url |-> apiUrl, method |-> "GET", headers |-> headers]

\* the message of the error for a response that is not ok
ErrorMessage(response) ==
    LET data == ResponseJson(response)
    IN  IF /\ data.status = "resolved"
           /\ Truthy(data.value)
           /\ Typeof(data.value) = "object"
           /\ Typeof(GetProp(data.value, "message")) = "string"
        THEN GetProp(data.value, "message")
        ELSE JsString(UnknownError)

\* makeApiRequest from the response of fetch on
AfterFetchUncaught(response) ==
    IF ~ResponseOk(response)
    THEN IF ResponseJson(response).status = "rejected" THEN ResponseJson(response)
         ELSE Rejected(ApiCallError(ErrorMessage(response).str, response.status,
                                    response.statusText))
    ELSE ResponseJson(response)
AfterFetch(response) ==
    IF ~ResponseOk(response)
    THEN Rejected(ApiCallError(ErrorMessage(response).str, response.status,
                               response.statusText))
    ELSE ResponseJson(response)

\* URLSearchParams.has and .get on the list of name/value pairs of the
\* query: get gives the value of the first pair of that name, or null
SearchParamsHas(params, name) == \E i \in 1..Len(params) : params[i][1] = name
SearchParamsGet(params, name) ==
    IF ~SearchParamsHas(params, name) THEN JsNull
    ELSE LET first == CHOOSE i \in 1..Len(params) :
                          /\ params[i][1] = name
                          /\ \A j \in 1..(i - 1) : params[j][1] # name
         IN  JsString(params[first][2])

\* handleArticleRequestUrl up to its first await: the access id it verifies,
\* or null when it returns null at once
AccessIdToVerify(searchParams) ==
    IF SearchParamsHas(searchParams, ARTICLE_ACCESS_LINK_PARAM)
    THEN LET accessId == SearchParamsGet(searchParams, ARTICLE_ACCESS_LINK_PARAM)
         IN  IF Truthy(accessId) THEN accessId ELSE JsNull
    ELSE JsNull

\* the arguments the callers of the model pass, and the responses the
\* server gives
ApiCallIds == 1..MaxApiCalls
ApiPermalinks == {"https://example.com/article"}
AccessIds == {"foo"}
RequestQueries ==
    { <<>>,
      << <<"utm_source", "feed">> >>,
      << <<ARTICLE_ACCESS_LINK_PARAM, "">> >>,
      << <<ARTICLE_ACCESS_LINK_PARAM, "foo">> >>,
      << <<ARTICLE_ACCESS_LINK_PARAM, "">>, <<ARTICLE_ACCESS_LINK_PARAM, "foo">> >>,
      << <<ARTICLE_ACCESS_LINK_PARAM, "foo">>, <<ARTICLE_ACCESS_LINK_PARAM, "">> >> }
DirectSlugs == {<<>>, <<"a b">>}
DirectPostData == {JsUndefined, JsObject([foo |-> JsString("bar")])}
Statuses == {200, 400, 500}
ReasonPhrase(status) ==
    CASE status = 200 -> "OK"
      [] status = 400 -> "Bad Request"
      [] OTHER -> "Internal Server Error"
BodyTexts ==
    {"", "<html>", "null", "\"bar\"", "[]",
     "{\"message\":\"bar\"}", "{\"message\":42}", "{\"foo\":\"bar\"}"}
Responses ==
    {[status |-> s, statusText |-> ReasonPhrase(s), body |-> b] :
        s \in Statuses, b \in BodyTexts}
NetworkError == [name |-> "TypeError"]

\* an operation calls makeApiRequest(slugs, postData) and waits for fetch
Fetching(op, args, verified, slugs, postData) ==
    [pc |-> "fetching", op |-> op, args |-> args, verified |-> verified,
     made |-> << <<slugs, postData>> >>,
     requests |-> <<BuildRequest(publicationApiKey, slugs, postData)>>]

Frame == UNCHANGED <<pricingVars, permalinkVars, sdkVars>>

GetPublication(c) ==
    /\ apiCalls[c].pc = "idle"
    /\ apiCalls' = [apiCalls EXCEPT ![c] =
                       Fetching("getPublication", <<>>, <<>>, <<>>, JsUndefined)]
    /\ UNCHANGED apiLast
    /\ Frame

GetArticle(c) ==
    /\ apiCalls[c].pc = "idle"
    /\ \E permalink \in ApiPermalinks :
          apiCalls' = [apiCalls EXCEPT ![c] =
                          Fetching("getArticle", <<permalink>>, <<>>,
                                   <<"article", permalink>>, JsUndefined)]
    /\ UNCHANGED apiLast
    /\ Frame

UpsertArticle(c) ==
    /\ apiCalls[c].pc = "idle"
    /\ \E permalink \in ApiPermalinks :
          apiCalls' = [apiCalls EXCEPT ![c] =
                          Fetching("upsertArticle", <<permalink>>, <<>>, <<"article">>,
                                   JsObject([permalink |-> JsString(permalink)]))]
    /\ UNCHANGED apiLast
    /\ Frame

\* verifyArticleAccess(accessId), called by op with args
VerifyStart(op, args, accessId) ==
    Fetching(op, args, <<accessId>>, <<"verify-article-access">>,
             JsObject([articleAccessId |-> JsString(accessId)]))

VerifyArticleAccess(c) ==
    /\ apiCalls[c].pc = "idle"
    /\ \E accessId \in AccessIds :
          apiCalls' = [apiCalls EXCEPT ![c] =
                          VerifyStart("verifyArticleAccess", <<accessId>>, accessId)]
    /\ UNCHANGED apiLast
    /\ Frame

HandleArticleRequestUrl(c) ==
    /\ apiCalls[c].pc = "idle"
    /\ \E searchParams \in RequestQueries :
          LET accessId == AccessIdToVerify(searchParams)
          IN  IF accessId = JsNull
              THEN /\ apiLast' = [pc |-> "settled", op |-> "handleArticleRequestUrl",
                                  args |-> <<searchParams>>, verified |-> <<>>,
                                  made |-> <<>>, requests |-> <<>>, outcome |-> Resolved(JsNull)]
                   /\ UNCHANGED apiCalls
              ELSE /\ apiCalls' = [apiCalls EXCEPT ![c] =
                                      VerifyStart("handleArticleRequestUrl",
                                                  <<searchParams>>, accessId.str)]
                   /\ UNCHANGED apiLast
    /\ Frame

MakeApiRequest(c) ==
    /\ apiCalls[c].pc = "idle"
    /\ \E slugs \in DirectSlugs, postData \in DirectPostData :
          apiCalls' = [apiCalls EXCEPT ![c] =
                          Fetching("makeApiRequest", <<slugs, postData>>, <<>>,
                                   slugs, postData)]
    /\ UNCHANGED apiLast
    /\ Frame

\* what an operation makes of the outcome of the makeApiRequest it awaits:
\* every one of them is "return await this.makeApiRequest(...)" or
\* "return await this.verifyArticleAccess(...)"
ReturnAwait(outcome) == outcome

\* the requests a call has handed to fetch when it settles: lines 182-199
\* hold no loop and no second call of fetch, so they are the ones it had
\* made when it was suspended
RequestsRetriedOnFailure(requests, response) ==
    IF ResponseOk(response) THEN requests ELSE requests \o requests
RequestsAfterResponse(requests, response) == requests

\* fetch resolves with a response, and the operation settles
FetchResolves(c) ==
    /\ apiCalls[c].pc = "fetching"
    /\ \E response \in Responses :
          apiLast' = [pc |-> "settled", op |-> apiCalls[c].op, args |-> apiCalls[c].args,
                      verified |-> apiCalls[c].verified,
                      made |-> apiCalls[c].made,
                      requests |-> RequestsAfterResponse(apiCalls[c].requests, response),
                      response |-> response,
                      inner |-> AfterFetch(response),
                      outcome |-> ReturnAwait(AfterFetch(response))]
    /\ apiCalls' = [apiCalls EXCEPT ![c] = Idle]
    /\ Frame

\* fetch rejects (no response), and the operation rejects with its error
FetchRejects(c) ==
    /\ apiCalls[c].pc = "fetching"
    /\ apiLast' = [pc |-> "settled", op |-> apiCalls[c].op, args |-> apiCalls[c].args,
                   verified |-> apiCalls[c].verified,
                   made |-> apiCalls[c].made,
                   requests |-> apiCalls[c].requests,
                   inner |-> Rejected(NetworkError),
                   outcome |-> ReturnAwait(Rejected(NetworkError))]
    /\ apiCalls' = [apiCalls EXCEPT ![c] = Idle]
    /\ Frame

\* the parts of the state a specification leaves alone
PricingIdle ==
    /\ pricingArg = [price |-> Num(1)]
    /\ pricingRet = Pending
    /\ pricingHeap = [caller |-> pricingArg]
    /\ pricingAgain = Pending
PermalinkIdle ==
    /\ permalinkArg = UrlText("https", "", "", "example.com", "", "/article", "", "")
    /\ permalinkRet = Pending
    /\ permalinkAgain = Pending
SdkIdle ==
    /\ implementation = "publication-sdk.ts"
    /\ publicationApiKey = "key-A"
    /\ calls = [c \in CallIds |-> Idle]
ApiIdle ==
    /\ apiCalls = [c \in ApiCallIds |-> Idle]
    /\ apiLast = Idle

Init ==
    /\ implementation \in Implementations
    /\ publicationApiKey \in ApiKeys
    /\ calls = [c \in CallIds |-> Idle]
    /\ PricingIdle
    /\ PermalinkIdle
    /\ ApiIdle

Next ==
    \E c \in CallIds :
        \/ CreateArticlePurchaseUrl(c)
        \/ SignResolves(c)

Spec == Init /\ [][Next]_vars

(***************************************************************************)
(* Inputs of the pricing validator.                                        *)
(***************************************************************************)
PriceValues ==
    {NaN, PosInf, Num(-1), Frac(0)} \cup {Num(n) : n \in 0..MaxPrice}
QtyValues ==
    {NaN, PosInf, Frac(MinQuantity)} \cup {Num(n) : n \in (MinQuantity - 1)..MaxQty}
PctValues ==
    {NaN, PosInf, Num(MinPctExclusive), Num(MaxPctExclusive), Frac(1)}
        \cup {Num(n) : n \in 1..MaxPct}
Tiers == {Tier(q, p) : q \in QtyValues, p \in PctValues}

(***************************************************************************)
(* The pricing validator applied to every input.                           *)
(***************************************************************************)
InitPricing ==
    /\ \E p \in PriceValues :
          \/ pricingArg = [price |-> p]
          \/ pricingArg = [price |-> p, discounts |-> JsNotArray]
          \/ \E n \in 0..MaxTiers : \E d \in [1..n -> Tiers] :
                pricingArg = [price |-> p, discounts |-> JsArray(d)]
    /\ pricingRet = Pending
    /\ pricingHeap = [caller |-> pricingArg]
    /\ pricingAgain = Pending
    /\ PermalinkIdle
    /\ SdkIdle
    /\ ApiIdle

CallValidateArticlePricing ==
    /\ pricingRet.status = "pending"
    /\ pricingRet' = validateArticlePricing(pricingArg)
    /\ pricingHeap' = HeapAfter(pricingArg)
    /\ UNCHANGED <<pricingArg, pricingAgain, permalinkVars, sdkVars, apiVars>>

\* the caller passes the value a call returned to validateArticlePricing again
RevalidateArticlePricing ==
    /\ pricingRet.status = "returned"
    /\ pricingAgain.status = "pending"
    /\ pricingAgain' = validateArticlePricing(pricingRet.value)
    /\ UNCHANGED <<pricingArg, pricingRet, pricingHeap, permalinkVars, sdkVars, apiVars>>

NextPricing == CallValidateArticlePricing \/ RevalidateArticlePricing

SpecPricing == InitPricing /\ [][NextPricing]_vars

(***************************************************************************)
(* The permalink validator applied to every input, and once more to what   *)
(* it returned.                                                            *)
(***************************************************************************)
PermalinkSchemes == {"", "https", "HTTPS", "http"}
PermalinkUsernames == {"", "anonymous"}
PermalinkPasswords == {"", "flabada"}
PermalinkHosts == {"", "example.com"}
PermalinkPorts == {"", ":443", ":3000"}
PermalinkPaths == {"", "/article"}
PermalinkQueries == {"", "?", "?foo=bar"}
PermalinkHashes == {"", "#", "#foo"}

InitPermalink ==
    /\ \E sc \in PermalinkSchemes, un \in PermalinkUsernames, pw \in PermalinkPasswords,
          ho \in PermalinkHosts, po \in PermalinkPorts, pa \in PermalinkPaths,
          qu \in PermalinkQueries, ha \in PermalinkHashes :
          permalinkArg = UrlText(sc, un, pw, ho, po, pa, qu, ha)
    /\ permalinkRet = Pending
    /\ permalinkAgain = Pending
    /\ PricingIdle
    /\ SdkIdle
    /\ ApiIdle

CallValidateArticlePermalink ==
    /\ permalinkRet.status = "pending"
    /\ permalinkRet' = validateArticlePermalink(permalinkArg)
    /\ UNCHANGED <<permalinkArg, permalinkAgain, pricingVars, sdkVars, apiVars>>

\* the caller passes the returned string to validateArticlePermalink again
RevalidateArticlePermalink ==
    /\ permalinkRet.status = "returned"
    /\ permalinkAgain.status = "pending"
    /\ permalinkAgain' = validateArticlePermalink(permalinkRet.value)
    /\ UNCHANGED <<permalinkArg, permalinkRet, pricingVars, sdkVars, apiVars>>

NextPermalink == CallValidateArticlePermalink \/ RevalidateArticlePermalink

SpecPermalink == InitPermalink /\ [][NextPermalink]_vars

(***************************************************************************)
(* The API operations of one SDK instance, called in any order and         *)
(* overlapping, against a server that answers as it likes.                 *)
(***************************************************************************)
InitApi ==
    /\ implementation = "publication-sdk.ts"
    /\ publicationApiKey \in ApiKeys
    /\ calls = [c \in CallIds |-> Idle]
    /\ ApiIdle
    /\ PricingIdle
    /\ PermalinkIdle

NextApi ==
    \E c \in ApiCallIds :
        \/ GetPublication(c)
        \/ GetArticle(c)
        \/ UpsertArticle(c)
        \/ VerifyArticleAccess(c)
        \/ HandleArticleRequestUrl(c)
        \/ MakeApiRequest(c)
        \/ FetchResolves(c)
        \/ FetchRejects(c)

SpecApi == InitApi /\ [][NextApi]_vars

(***************************************************************************)
(* Properties of validateArticlePricing, stated on the caller's argument   *)
(* and the outcome of the call.                                            *)
(***************************************************************************)
PricingDone == pricingRet.status # "pending"
PricingThrown == pricingRet.status = "thrown"
PricingReturned == pricingRet.status = "returned"

\* the tiers the caller wrote (none when discounts is absent or not a list)
ArgTiers ==
    IF "discounts" \in DOMAIN pricingArg /\ pricingArg.discounts.isArray
    THEN pricingArg.discounts.items
    ELSE <<>>

\* a finite integer / a finite number, stated directly on the representation
FiniteInteger(x) == x.k = "fin" /\ x.h % 2 = 0
FiniteNumber(x) == x.k = "fin"
ArgPriceBad == ~FiniteInteger(pricingArg.price) \/ pricingArg.price.h <= 0
QtyBad(q) == ~FiniteInteger(q) \/ q.h < 2 * 2
PctBad(p) == ~FiniteNumber(p) \/ p.h <= 0 \/ p.h >= 2 * 100
ArgSomeQtyBad == \E i \in 1..Len(ArgTiers) : QtyBad(ArgTiers[i].minimumQuantity)
ArgSomePctBad == \E i \in 1..Len(ArgTiers) : PctBad(ArgTiers[i].discountPercentage)
ArgRangeViolation == ArgPriceBad \/ ArgSomeQtyBad \/ ArgSomePctBad

\* two tiers of the argument share a minimumQuantity
ArgDuplicateQty ==
    \E i, j \in 1..Len(ArgTiers) :
        i # j /\ ArgTiers[i].minimumQuantity = ArgTiers[j].minimumQuantity

\* tier i comes before tier j when the argument's tiers (all with finite
\* quantities) are ordered by ascending minimumQuantity, ties in input order
ArgBefore(i, j) ==
    \/ ArgTiers[i].minimumQuantity.h < ArgTiers[j].minimumQuantity.h
    \/ ArgTiers[i].minimumQuantity.h = ArgTiers[j].minimumQuantity.h /\ i < j
ArgNext(i, j) ==
    /\ ArgBefore(i, j)
    /\ ~\E m \in 1..Len(ArgTiers) : ArgBefore(i, m) /\ ArgBefore(m, j)
\* in that order some tier's percentage is not above the one before it
ArgNonIncreasing ==
    \E i, j \in 1..Len(ArgTiers) :
        /\ ArgNext(i, j)
        /\ FiniteNumber(ArgTiers[i].discountPercentage)
        /\ FiniteNumber(ArgTiers[j].discountPercentage)
        /\ ArgTiers[j].discountPercentage.h <= ArgTiers[i].discountPercentage.h

\* C1: every list of discounts that validateArticlePricing returns is in
\* strictly ascending order of minimumQuantity, and every tier's
\* discountPercentage is strictly greater than that of the tier before it
\* (0 for the first tier), whatever the order of the tiers in the input.
C1_SortedStrictlyIncreasing ==
    PricingReturned =>
        LET d == pricingRet.value.discounts.items
        IN  /\ \A i \in 2..Len(d) :
                 /\ d[i - 1].minimumQuantity.k = "fin" /\ d[i].minimumQuantity.k = "fin"
                 /\ d[i - 1].minimumQuantity.h < d[i].minimumQuantity.h
                 /\ d[i - 1].discountPercentage.h < d[i].discountPercentage.h
            /\ \A i \in 1..Len(d) :
                 d[i].discountPercentage.k = "fin" /\ d[i].discountPercentage.h > 0
\* a successful call whose input tiers were given in descending order
C1_Witness ==
    /\ PricingReturned
    /\ Len(ArgTiers) >= 2
    /\ ArgTiers[1].minimumQuantity.h > ArgTiers[2].minimumQuantity.h
    /\ Len(pricingRet.value.discounts.items) = Len(ArgTiers)

\* C4: a price that is not a finite integer, or is <= 0, makes the call fail
\* with the price error whatever the discounts are: the price is checked
\* before any discount.
C4_BadPriceFails ==
    (PricingDone /\ ArgPriceBad) => pricingRet = Thrown(PriceError)
\* a bad price together with a tier that would itself be rejected
C4_Witness ==
    /\ PricingThrown
    /\ ArgPriceBad
    /\ ArgSomeQtyBad
    /\ pricingRet.error = PriceError

\* C5: for an integer price p > 0 and a discounts field that is absent or not
\* a list, the call returns exactly {price: p, discounts: []}; the discounts
\* key is present in every returned value.
C5_DefaultsToEmptyDiscounts ==
    /\ (/\ PricingDone
        /\ ~ArgPriceBad
        /\ ("discounts" \notin DOMAIN pricingArg \/ ~pricingArg.discounts.isArray))
           => pricingRet = Returned([price |-> pricingArg.price,
                                     discounts |-> [isArray |-> TRUE, items |-> <<>>]])
    /\ PricingReturned =>
           /\ DOMAIN pricingRet.value = {"price", "discounts"}
           /\ pricingRet.value.discounts.isArray
\* a successful call on an input without a discounts key
C5_Witness ==
    /\ PricingReturned
    /\ "discounts" \notin DOMAIN pricingArg
    /\ "discounts" \in DOMAIN pricingRet.value

\* C6: when the price and every tier field pass their range checks, two tiers
\* with the same minimumQuantity make the call fail, whatever their
\* percentages and positions are.
C6_DuplicateQuantityFails ==
    (PricingDone /\ ~ArgRangeViolation /\ ArgDuplicateQty) => PricingThrown
\* duplicates whose percentages rise in input order
C6_Witness ==
    /\ PricingThrown
    /\ ~ArgRangeViolation
    /\ ArgDuplicateQty
    /\ ~ArgNonIncreasing

\* C7: when, with the tiers ordered by ascending minimumQuantity, some tier's
\* discountPercentage is less than or equal to that of the tier before it,
\* the call fails; equal percentages are rejected.
C7_NonIncreasingFails ==
    (PricingDone /\ ~ArgSomeQtyBad /\ ~ArgSomePctBad /\ ArgNonIncreasing)
        => PricingThrown
\* two tiers with distinct quantities and the same percentage
C7_Witness ==
    /\ PricingThrown
    /\ ~ArgRangeViolation
    /\ ~ArgDuplicateQty
    /\ \E i, j \in 1..Len(ArgTiers) :
          /\ ArgNext(i, j)
          /\ ArgTiers[i].discountPercentage = ArgTiers[j].discountPercentage
    /\ pricingRet.error = TierError

\* C8: a tier whose minimumQuantity is not a finite integer, or is < 2, makes
\* the call fail, whatever the other tiers and its percentage are.
C8_BadQuantityFails ==
    (PricingDone /\ ArgSomeQtyBad) => PricingThrown
\* a valid price and a valid first tier followed by a tier with a bad quantity
C8_Witness ==
    /\ PricingThrown
    /\ ~ArgPriceBad
    /\ Len(ArgTiers) >= 2
    /\ ~QtyBad(ArgTiers[1].minimumQuantity)
    /\ ~PctBad(ArgTiers[1].discountPercentage)
    /\ QtyBad(ArgTiers[2].minimumQuantity)
    /\ pricingRet.error = QuantityError

\* C9: a tier whose discountPercentage is not a finite number, or is <= 0, or
\* is >= 100, makes the call fail, whatever the other tiers are.
C9_BadPercentageFails ==
    (PricingDone /\ ArgSomePctBad) => PricingThrown
\* a valid price and valid quantities with a percentage of exactly 100
C9_Witness ==
    /\ PricingThrown
    /\ ~ArgPriceBad
    /\ ~ArgSomeQtyBad
    /\ \E i \in 1..Len(ArgTiers) : ArgTiers[i].discountPercentage = Num(100)
    /\ pricingRet.error = PercentageError

\* C10: rejection priority between rule groups.  An input that violates a
\* type/range rule and also has duplicate quantities or non-increasing
\* percentages fails with a type/range error; an input that passes the range
\* rules and has both duplicate quantities and non-increasing percentages
\* fails with the uniqueness error.
C10_RejectionPriority ==
    PricingDone =>
        /\ (ArgRangeViolation /\ (ArgDuplicateQty \/ (~ArgSomeQtyBad /\ ArgNonIncreasing)))
              => /\ PricingThrown
                 /\ pricingRet.error \in {PriceError, QuantityError, PercentageError}
        /\ (~ArgRangeViolation /\ ArgDuplicateQty /\ ArgNonIncreasing)
              => pricingRet = Thrown(UniqueError)
\* valid fields, a duplicated quantity and a percentage that does not rise
C10_Witness ==
    /\ PricingThrown
    /\ ~ArgRangeViolation
    /\ ArgDuplicateQty
    /\ ArgNonIncreasing
    /\ pricingRet.error = UniqueError

\* the first tier of the caller's list that breaks a field rule, or 0
ArgTierBad(i) ==
    QtyBad(ArgTiers[i].minimumQuantity) \/ PctBad(ArgTiers[i].discountPercentage)
ArgFirstBadTier ==
    IF \A i \in 1..Len(ArgTiers) : ~ArgTierBad(i) THEN 0
    ELSE CHOOSE i \in 1..Len(ArgTiers) :
             ArgTierBad(i) /\ \A j \in 1..(i - 1) : ~ArgTierBad(j)
\* a tier with a bad percentage comes before a tier with a bad quantity
ArgBadPctBeforeBadQty ==
    \E i, j \in 1..Len(ArgTiers) :
        /\ i < j
        /\ PctBad(ArgTiers[i].discountPercentage)
        /\ QtyBad(ArgTiers[j].minimumQuantity)

\* C25, as stated: with a valid price, when a tier has an invalid
\* minimumQuantity and a tier earlier in the list has an invalid
\* discountPercentage, the error raised is the minimum-quantity error.
C25_QuantityRuleFirst ==
    (PricingDone /\ ~ArgPriceBad /\ ArgBadPctBeforeBadQty) =>
        pricingRet = Thrown(QuantityError)

\* C25, amended: the field rules are applied tier by tier in the order of
\* the input list, the quantity before the percentage within a tier.  With
\* a valid price, the error is the one of the first tier that breaks a
\* field rule: the minimum-quantity error when that tier's quantity is
\* invalid, the percentage error otherwise, whatever later tiers hold.
C25_FirstBadTierDecides ==
    (PricingDone /\ ~ArgPriceBad /\ ArgFirstBadTier # 0) =>
        pricingRet =
            IF QtyBad(ArgTiers[ArgFirstBadTier].minimumQuantity)
            THEN Thrown(QuantityError)
            ELSE Thrown(PercentageError)

\* a tier with a valid quantity and an invalid percentage, followed by a
\* tier with an invalid quantity, has been rejected for the percentage
C25_Witness ==
    /\ PricingThrown
    /\ ~ArgPriceBad
    /\ Len(ArgTiers) = 2
    /\ ~QtyBad(ArgTiers[1].minimumQuantity)
    /\ PctBad(ArgTiers[1].discountPercentage)
    /\ QtyBad(ArgTiers[2].minimumQuantity)
    /\ pricingRet.error = PercentageError

\* the rules of a consistent input, on the caller's argument
ArgPctRisesWithQty ==
    \A i, j \in 1..Len(ArgTiers) :
        ArgTiers[i].minimumQuantity.h < ArgTiers[j].minimumQuantity.h
            => ArgTiers[i].discountPercentage.h < ArgTiers[j].discountPercentage.h
ArgConsistent ==
    /\ FiniteInteger(pricingArg.price) /\ pricingArg.price.h > 0
    /\ \A i \in 1..Len(ArgTiers) :
          /\ FiniteInteger(ArgTiers[i].minimumQuantity)
          /\ ArgTiers[i].minimumQuantity.h >= 2 * 2
          /\ FiniteNumber(ArgTiers[i].discountPercentage)
          /\ ArgTiers[i].discountPercentage.h > 0
          /\ ArgTiers[i].discountPercentage.h < 2 * 100
    /\ \A i, j \in 1..Len(ArgTiers) :
          i # j => ArgTiers[i].minimumQuantity # ArgTiers[j].minimumQuantity
    /\ ArgPctRisesWithQty

\* C28: validateArticlePricing accepts exactly the consistent inputs.  A
\* call succeeds if and only if the price is an integer above 0, every
\* tier has an integer minimumQuantity of at least 2 and a
\* discountPercentage strictly between 0 and 100, the quantities are
\* pairwise distinct and the percentages rise strictly with the quantity,
\* whatever the order of the tiers and whether or not a percentage is an
\* integer.
C28_AcceptsExactlyConsistent ==
    PricingDone => (PricingReturned <=> ArgConsistent)

\* tiers given in descending order of quantity, one of them with the
\* percentage 1.5, have been accepted
C28_Witness ==
    /\ PricingReturned
    /\ Len(ArgTiers) = 2
    /\ ArgTiers[1].minimumQuantity.h > ArgTiers[2].minimumQuantity.h
    /\ ArgTiers[2].discountPercentage = Frac(1)

\* the number of times a tier occurs in a list
Occurrences(list, t) == Cardinality({i \in 1..Len(list) : list[i] = t})

\* C29: on success validateArticlePricing returns the price of the input
\* and a discounts list that is a permutation of the input's tiers: every
\* (minimumQuantity, discountPercentage) pair occurs in it as often as in
\* the input, so none is added, dropped, merged or altered.
C29_ReturnsPermutation ==
    PricingReturned =>
        LET out == pricingRet.value.discounts.items
        IN  /\ pricingRet.value.price = pricingArg.price
            /\ Len(out) = Len(ArgTiers)
            /\ \A t \in {ArgTiers[i] : i \in 1..Len(ArgTiers)}
                        \cup {out[i] : i \in 1..Len(out)} :
                  Occurrences(out, t) = Occurrences(ArgTiers, t)

\* two tiers with different percentages came back in the other order
C29_Witness ==
    /\ PricingReturned
    /\ Len(ArgTiers) = 2
    /\ pricingRet.value.discounts.items = <<ArgTiers[2], ArgTiers[1]>>
    /\ ArgTiers[1].discountPercentage # ArgTiers[2].discountPercentage

\* C30: validateArticlePricing is idempotent on its outputs: validating
\* the value a call returned succeeds and returns an equal value, with the
\* same price and the same discounts in the same order.
C30_PricingIdempotent ==
    pricingAgain.status # "pending" =>
        /\ pricingRet.status = "returned"
        /\ pricingAgain = Returned(pricingRet.value)

\* the value returned for tiers that had to be sorted, and whose caller
\* passed them in another order, has been validated again
C30_Witness ==
    /\ pricingAgain.status = "returned"
    /\ Len(ArgTiers) = 2
    /\ pricingAgain.value.discounts.items # ArgTiers
    /\ pricingAgain.value.discounts.items = pricingRet.value.discounts.items

\* C18: validateArticlePricing never mutates its input.  Whenever a call
\* has returned or thrown, the caller's pricing object, with its discounts
\* list in its order and with its values, is what the caller passed, and a
\* returned discounts list is the array the call allocated, not the caller's.
C18_InputNeverMutated ==
    PricingDone =>
        /\ pricingHeap.caller = pricingArg
        /\ PricingReturned =>
              /\ "data" \in DOMAIN pricingHeap
              /\ pricingRet.value.discounts.items = pricingHeap.data
              /\ DataRef # CallerRef

\* a call returned a list in another order than the caller's, which still
\* has its own order
C18_Witness ==
    /\ PricingReturned
    /\ Len(ArgTiers) = 2
    /\ pricingRet.value.discounts.items # ArgTiers
    /\ pricingHeap.data # RawDiscounts(pricingHeap.caller)

(***************************************************************************)
(* Properties of validateArticlePermalink, stated on the pieces of the     *)
(* caller's string and the outcome of the call.                            *)
(***************************************************************************)
PermalinkDone == permalinkRet.status # "pending"
PermalinkThrown == permalinkRet.status = "thrown"
PermalinkReturned == permalinkRet.status = "returned"

\* the string is not an absolute URL: it has no scheme or no host
ArgNotAbsolute == permalinkArg.scheme = "" \/ permalinkArg.host = ""
ArgNotHttps == permalinkArg.scheme \notin {"https", "HTTPS"}
ArgHasQuery == permalinkArg.query \notin {"", "?"}
ArgHasFragment == permalinkArg.hash \notin {"", "#"}
ArgHasCredentials == permalinkArg.username # "" \/ permalinkArg.password # ""
ArgHasPort == permalinkArg.port # ""

\* C11: validateArticlePermalink fails for every input that is not an
\* absolute URL, whose scheme is not https, that has a non-empty query, a
\* non-empty fragment, or a username or password; one condition is enough.
C11_BadPermalinkFails ==
    (/\ PermalinkDone
     /\ \/ ArgNotAbsolute
        \/ ArgNotHttps
        \/ ArgHasQuery
        \/ ArgHasFragment
        \/ ArgHasCredentials)
        => PermalinkThrown
\* an https URL whose only defect is a non-empty fragment
C11_Witness ==
    /\ PermalinkThrown
    /\ ~ArgNotAbsolute /\ ~ArgNotHttps /\ ~ArgHasQuery /\ ~ArgHasCredentials /\ ~ArgHasPort
    /\ ArgHasFragment
    /\ permalinkRet.error = HashError

\* C12 as stated: every input that writes a port fails, whatever the port is.
C12_AnyWrittenPortFails ==
    (PermalinkDone /\ ArgHasPort) => PermalinkThrown
\* C12 as amended: every input that writes a port other than the default
\* port of https fails; a written ":443" on an https URL is dropped by the
\* parser, and such an input is accepted when nothing else is wrong with it.
C12_NonDefaultPortFails ==
    PermalinkDone =>
        /\ (ArgHasPort /\ permalinkArg.port # ":443") => PermalinkThrown
        /\ (/\ permalinkArg.port = ":443"
            /\ ~ArgNotAbsolute /\ ~ArgNotHttps /\ ~ArgHasQuery
            /\ ~ArgHasFragment /\ ~ArgHasCredentials)
              => PermalinkReturned /\ permalinkRet.value.port = ""
\* an https URL whose only defect is the port :3000
C12_Witness ==
    /\ PermalinkThrown
    /\ ~ArgNotAbsolute /\ ~ArgNotHttps /\ ~ArgHasQuery
    /\ ~ArgHasFragment /\ ~ArgHasCredentials
    /\ permalinkArg.port = ":3000"
    /\ permalinkRet.error = PortError

\* C13: every string validateArticlePermalink returns has scheme https and
\* contains no query component, no fragment, no port and no username or
\* password, also when the input had an empty query or fragment marker.
C13_ReturnedIsPermalink ==
    PermalinkReturned =>
        /\ permalinkRet.value.scheme = "https"
        /\ permalinkRet.value.query = ""
        /\ permalinkRet.value.hash = ""
        /\ permalinkRet.value.port = ""
        /\ permalinkRet.value.username = ""
        /\ permalinkRet.value.password = ""

\* C14: validating a string that validateArticlePermalink returned succeeds
\* and returns the same string.
C14_PermalinkIdempotent ==
    (PermalinkReturned /\ permalinkAgain.status # "pending")
        => permalinkAgain = Returned(permalinkRet.value)
\* the second validation has run on a string that differs from the input
C14_Witness ==
    /\ PermalinkReturned
    /\ permalinkAgain.status = "returned"
    /\ permalinkRet.value # permalinkArg

(***************************************************************************)
(* Properties of createArticlePurchaseUrl.                                 *)
(***************************************************************************)
CallStarted(c) == calls[c].pc # "idle"
\* the call handed a payload to the signer
CallSigned(c) == calls[c].pc \in {"signing", "resolved"}

\* C2: createArticlePurchaseUrl validates the permalink on every call: when
\* validateArticlePermalink rejects the permalink, no payload is handed to
\* the signer and no URL is returned; otherwise the payload's permalink is
\* the canonical string validateArticlePermalink returns.
C2_PermalinkValidated ==
    \A c \in CallIds :
        (implementation = "publication-sdk.ts" /\ CallStarted(c)) =>
            LET v == validateArticlePermalink(calls[c].args.permalink)
            IN  /\ v.status = "thrown" => ~CallSigned(c)
                /\ (v.status = "returned" /\ CallSigned(c))
                      => calls[c].payload.permalink = v.value

\* C3: custom pricing that is supplied is validated with
\* validateArticlePricing: invalid pricing produces no token, and valid
\* pricing is embedded as the normalized result.
C3_CustomPricingValidated ==
    \A c \in CallIds :
        (/\ implementation = "publication-sdk.ts"
         /\ CallStarted(c)
         /\ "customPricing" \in DOMAIN calls[c].args) =>
            LET v == validateArticlePricing(calls[c].args.customPricing)
            IN  /\ v.status = "thrown" => ~CallSigned(c)
                /\ (v.status = "returned" /\ CallSigned(c))
                      => /\ "customPricing" \in DOMAIN calls[c].payload
                         /\ calls[c].payload.customPricing = v.value

\* C15: field presence in the payload is exact: customPricing is a key of
\* the payload (and of the signed claims) exactly when the caller supplied
\* custom pricing, and showSharingContext exactly when the caller passed
\* true, its value then being true.
PresenceExact(args, payload) ==
    /\ "customPricing" \in DOMAIN payload <=> "customPricing" \in DOMAIN args
    /\ "showSharingContext" \in DOMAIN payload
          <=> ("showSharingContext" \in DOMAIN args /\ args.showSharingContext = TRUE)
    /\ "showSharingContext" \in DOMAIN payload => payload.showSharingContext = TRUE
C15_FieldPresenceExact ==
    \A c \in CallIds :
        /\ CallSigned(c) => PresenceExact(calls[c].args, calls[c].payload)
        /\ calls[c].pc = "resolved" => PresenceExact(calls[c].args, calls[c].url[3].claims)
\* a token was made for a call that passed false and no custom pricing
C15_Witness ==
    \E c \in CallIds :
        /\ calls[c].pc = "resolved"
        /\ "showSharingContext" \in DOMAIN calls[c].args
        /\ calls[c].args.showSharingContext = FALSE
        /\ "customPricing" \notin DOMAIN calls[c].args

\* C16: every implementation returns, on success, the origin, the
\* purchase-link path and the token joined by '/'.
C16_PurchaseLinkUrl ==
    \A c \in CallIds :
        calls[c].pc = "resolved" =>
            /\ Len(calls[c].url) = 3
            /\ calls[c].url[1] = "https://linketysplit.com"
            /\ calls[c].url[2] = "purchase-link"
            /\ calls[c].url[3].signedWith = publicationApiKey

\* C17: the token of the returned URL is the signer's output for the built
\* payload under the instance's publicationApiKey: verifying it with that key
\* yields the payload with the permalink of the call, and verifying it with
\* any other key yields nothing.
C17_SignedWithApiKey ==
    \A c \in CallIds :
        calls[c].pc = "resolved" =>
            LET jwt == calls[c].url[3]
                verified == jwtVerify(jwt, publicationApiKey)
            IN  /\ verified.status = "returned"
                /\ \A k \in DOMAIN calls[c].payload :
                      k \in DOMAIN verified.value /\ verified.value[k] = calls[c].payload[k]
                /\ verified.value.permalink
                      = ImplPermalink(implementation, calls[c].args.permalink).value
                /\ \A other \in ApiKeys \ {publicationApiKey} :
                      jwtVerify(jwt, other).status = "thrown"
\* a URL was returned by an instance whose key is key-B
C17_Witness ==
    \E c \in CallIds :
        /\ calls[c].pc = "resolved"
        /\ publicationApiKey = "key-B"
        /\ calls[c].url[3].signedWith = "key-B"

(***************************************************************************)
(* Properties of the API operations, stated on the operation that settled  *)
(* last and on the operations in flight.                                   *)
(***************************************************************************)
ApiSettled == apiLast.pc = "settled"
LastIsHandle == ApiSettled /\ apiLast.op = "handleArticleRequestUrl"

\* the value of the linketysplit_access parameter of a query, as the URL
\* API reports it (for a repeated parameter, its first occurrence)
AccessParam(searchParams) == SearchParamsGet(searchParams, ARTICLE_ACCESS_LINK_PARAM)
AccessParamMissingOrEmpty(searchParams) ==
    AccessParam(searchParams) \in {JsNull, JsString("")}

\* the operations in flight that handleArticleRequestUrl started
HandlesInFlight ==
    {c \in ApiCallIds : /\ apiCalls[c].pc = "fetching"
                        /\ apiCalls[c].op = "handleArticleRequestUrl"}

\* C19: handleArticleRequestUrl resolves to null, having called neither
\* verifyArticleAccess nor fetch, when the URL has no linketysplit_access
\* parameter or has it with an empty value; when the parameter has a
\* non-empty value it calls verifyArticleAccess exactly once, with that
\* value, makes that call's one request, and settles as that call settles.
C19_HandleArticleRequestUrl ==
    /\ LastIsHandle =>
          LET searchParams == apiLast.args[1]
          IN  IF AccessParamMissingOrEmpty(searchParams)
              THEN /\ apiLast.outcome = Resolved(JsNull)
                   /\ apiLast.verified = <<>>
                   /\ apiLast.requests = <<>>
              ELSE /\ apiLast.verified = <<AccessParam(searchParams).str>>
                   /\ Len(apiLast.requests) = 1
                   /\ apiLast.requests[1].body =
                         JsonStringify(JsObject([articleAccessId |-> AccessParam(searchParams)]))
                   /\ apiLast.outcome = apiLast.inner
    /\ \A c \in HandlesInFlight :
          /\ ~AccessParamMissingOrEmpty(apiCalls[c].args[1])
          /\ apiCalls[c].verified = <<AccessParam(apiCalls[c].args[1]).str>>
          /\ Len(apiCalls[c].requests) = 1

\* a URL with a non-empty linketysplit_access value has been verified and
\* answered with the body the server sent
C19_Witness ==
    /\ LastIsHandle
    /\ ~AccessParamMissingOrEmpty(apiLast.args[1])
    /\ apiLast.outcome.status = "resolved"
    /\ apiLast.outcome.value = JsObject([foo |-> JsString("bar")])

\* C20: when the response of makeApiRequest is not ok, the call rejects
\* with an ApiCallError whose statusCode is the response status and whose
\* message is the message of the body when the body is a JSON object with
\* a string message, and 'Unknown error.' in every other case.
BodyHasStringMessage(body) ==
    body \in {"{\"message\":\"bar\"}"}
C20_NotOkRejectsWithApiCallError ==
    (ApiSettled /\ "response" \in DOMAIN apiLast /\ apiLast.response.status \notin 200..299) =>
        /\ apiLast.inner.status = "rejected"
        /\ apiLast.inner.error.name = "ApiCallError"
        /\ apiLast.inner.error.statusCode = apiLast.response.status
        /\ apiLast.inner.error.message =
              IF BodyHasStringMessage(apiLast.response.body) THEN "bar" ELSE UnknownError
        /\ apiLast.outcome = apiLast.inner

\* a response that is not ok and whose body is not JSON has been turned
\* into an ApiCallError
C20_Witness ==
    /\ ApiSettled
    /\ "response" \in DOMAIN apiLast
    /\ apiLast.response.status = 500
    /\ apiLast.response.body = "<html>"
    /\ apiLast.inner.status = "rejected"
    /\ apiLast.inner.error.message = UnknownError

\* the operations the state knows of: those in flight and the one that
\* settled last
InFlight == {c \in ApiCallIds : apiCalls[c].pc = "fetching"}
\* P holds of each of them
EveryApiRecord(P(_)) ==
    /\ \A c \in InFlight : P(apiCalls[c])
    /\ ApiSettled => P(apiLast)

\* the request of a record of makeApiRequest is the one its arguments ask for
DirectRequestRight(rec) ==
    rec.op = "makeApiRequest" =>
        LET postData == rec.args[2]
            request == rec.requests[1]
        IN  /\ Len(rec.requests) = 1
            /\ request.headers["Authorization"] = "Bearer " \o publicationApiKey
            /\ IF postData = JsUndefined
                THEN /\ request.method = "GET"
                     /\ "body" \notin DOMAIN request
                ELSE /\ request.method = "POST"
                     /\ "body" \in DOMAIN request
                     /\ request.body = JsonStringify(postData)
                     /\ "Content-Type" \in DOMAIN request.headers
                     /\ request.headers["Content-Type"] = "application/json"

\* C21: makeApiRequest sends GET without a body when postData is not
\* supplied, and POST with the JSON text of postData as body and
\* Content-Type application/json when it is; either way the request
\* carries "Bearer <publicationApiKey>" as Authorization, and an ok
\* response resolves the call to the parsed JSON body.
C21_RequestAndOkResponse ==
    /\ EveryApiRecord(DirectRequestRight)
    /\ (/\ ApiSettled
        /\ "response" \in DOMAIN apiLast
        /\ apiLast.response.status \in 200..299
        /\ JsonParse(apiLast.response.body).ok) =>
            apiLast.inner = Resolved(JsonParse(apiLast.response.body).value)

\* a call with postData has sent its POST and has been resolved to the
\* object of an ok response
C21_Witness ==
    /\ ApiSettled
    /\ apiLast.op = "makeApiRequest"
    /\ apiLast.args[2] # JsUndefined
    /\ apiLast.requests[1].method = "POST"
    /\ apiLast.response.status = 200
    /\ apiLast.inner = Resolved(JsObject([foo |-> JsString("bar")]))

\* what an endpoint accessor has to pass to makeApiRequest, and the URL
\* parts its request has to have, for the arguments of the model
ArticleSlug == "https%3A%2F%2Fexample.com%2Farticle"
ExpectedCall(op, args) ==
    CASE op = "getPublication" -> << <<>>, JsUndefined >>
      [] op = "getArticle" -> << <<"article", args[1]>>, JsUndefined >>
      [] op = "upsertArticle" ->
            << <<"article">>, JsObject([permalink |-> JsString(args[1])]) >>
      [] op = "verifyArticleAccess" ->
            << <<"verify-article-access">>, JsObject([articleAccessId |-> JsString(args[1])]) >>
ExpectedUrl(op) ==
    CASE op = "getPublication" -> <<"https://linketysplit.com", "api/v1/publication">>
      [] op = "getArticle" ->
            <<"https://linketysplit.com", "api/v1/publication", "article", ArticleSlug>>
      [] op = "upsertArticle" -> <<"https://linketysplit.com", "api/v1/publication", "article">>
      [] op = "verifyArticleAccess" ->
            <<"https://linketysplit.com", "api/v1/publication", "verify-article-access">>
Accessors == {"getPublication", "getArticle", "upsertArticle", "verifyArticleAccess"}
AccessorRequestRight(rec) ==
    rec.op \in Accessors =>
        /\ rec.made = <<ExpectedCall(rec.op, rec.args)>>
        /\ Len(rec.requests) = 1
        /\ rec.requests[1].url = ExpectedUrl(rec.op)

C23_StatusMessageIsApiMessage ==
    (/\ ApiSettled
     /\ "response" \in DOMAIN apiLast
     /\ apiLast.response.status \in 400..499
     /\ BodyHasStringMessage(apiLast.response.body)) =>
        /\ apiLast.inner.status = "rejected"
        /\ apiLast.inner.error.statusMessage = "bar"

(***************************************************************************)
(* Calls of createArticlePurchaseUrl that overlap on one instance.         *)
(***************************************************************************)
\* the record of a call with these arguments that runs to its end with no
\* other call on the instance
Alone(args) ==
    LET started == StartCall(implementation, args)
    IN  IF started.status = "thrown"
        THEN [pc |-> "rejected", args |-> args, error |-> started.error]
        ELSE [pc |-> "resolved", args |-> args, payload |-> started.value,
              url |-> ImplUrl(implementation, SignJWT(started.value, publicationApiKey))]

\* C24: calls of createArticlePurchaseUrl (with the validators they run)
\* do not interfere.  In every interleaving, a call that has settled has
\* the outcome of the same call made alone, and a call suspended at the
\* signer holds the payload the call made alone signs.
C24_CallsDoNotInterfere ==
    \A c \in CallIds :
        /\ calls[c].pc \in {"rejected", "resolved"} => calls[c] = Alone(calls[c].args)
        /\ calls[c].pc = "signing" =>
              /\ Alone(calls[c].args).pc = "resolved"
              /\ calls[c].payload = Alone(calls[c].args).payload

\* a call has resolved while another call, made with other arguments, was
\* suspended at the signer
C24_Witness ==
    \E c, d \in CallIds :
        /\ calls[c].pc = "resolved"
        /\ calls[d].pc = "signing"
        /\ calls[c].payload # calls[d].payload

\* the classes whose createArticlePurchaseUrl calls the validators of
\* validators.ts: the second class of src/unnamed/part_005 and the class of
\* src/unnamed/part_006
ValidatingClasses == {"part_005b", "part_006"}

OneFetchOfFreshRequest(rec) ==
    Len(rec.made) = 1 =>
        /\ Len(rec.requests) = 1
        /\ rec.requests[1] = BuildRequest(publicationApiKey, rec.made[1][1], rec.made[1][2])

\* C27: makeApiRequest calls fetch exactly once per call, whether the
\* response is ok or not, and no operation changes a field of the
\* instance: in every state, after whatever calls have succeeded and
\* failed, a call has handed fetch the one request that an instance
\* constructed with the same API key builds for its arguments.
C27_OneFetchNoInstanceState ==
    /\ []EveryApiRecord(OneFetchOfFreshRequest)
    /\ [][publicationApiKey' = publicationApiKey]_vars

\* a call failed with a response that is not ok, having called fetch once,
\* and the next call on the instance is waiting for fetch
C27_Witness ==
    /\ ApiSettled
    /\ "response" \in DOMAIN apiLast
    /\ apiLast.response.status = 500
    /\ Len(apiLast.requests) = 1
    /\ \E c \in ApiCallIds :
          /\ apiCalls[c].pc = "fetching"
          /\ apiCalls[c].op = "makeApiRequest"

====
